---------------------------- MODULE Spec2Model ----------------------------
(***************************************************************************)
(* Verification model of pymodules/stat_tools_attractor.py (and the copy   *)
(* of compute_war in pymodules/data_tools_attractor.py).                   *)
(*                                                                         *)
(* The library is a flat set of independent numerical functions.  Each     *)
(* function is modelled by a specification of its own (SpecWar, ...) whose *)
(* initial states enumerate a bounded set of calls and whose actions are   *)
(* the steps of the function body.                                         *)
(*                                                                         *)
(* Numbers.  A Python/numpy float is modelled by an exact extended         *)
(* rational <<n, d>> in lowest terms with d >= 0: <<0, 0>> is NaN,         *)
(* <<1, 0>> and <<-1, 0>> are +inf and -inf.  Rounding error of IEEE       *)
(* doubles is not modelled.                                                *)
(***************************************************************************)
EXTENDS Integers, Sequences, FiniteSets, TLC

VARIABLES
    pc,       \* position inside the function being executed
    args,     \* the arguments as they were when the call was made
    mem,      \* the caller's array argument as it is now (numpy arrays are passed by reference)
    loc,      \* the local variables of the function
    outcome   \* how the call ended: returned value, raised exception or process exit

vars == <<pc, args, mem, loc, outcome>>

-----------------------------------------------------------------------------
(* Exact extended rational arithmetic standing for float arithmetic *)

Abs(x) == IF x < 0 THEN -x ELSE x

Sign(x) == IF x < 0 THEN -1 ELSE IF x > 0 THEN 1 ELSE 0

RECURSIVE GCD(_, _)
GCD(a, b) == IF b = 0 THEN a ELSE GCD(b, a % b)

Norm(n, d) ==
    IF d = 0 THEN <<Sign(n), 0>>
    ELSE LET g == GCD(Abs(n), Abs(d))
             s == Sign(d)
         IN  <<(s * n) \div g, (s * d) \div g>>

R(n) == <<n, 1>>
NaN == <<0, 0>>
IsNaN(a) == a[1] = 0 /\ a[2] = 0
IsInf(a) == a[1] # 0 /\ a[2] = 0
IsFinite(a) == a[2] # 0

\* the operations reduce by common factors before multiplying, to keep the integers small
RAdd(a, b) ==
    IF IsNaN(a) \/ IsNaN(b) THEN NaN
    ELSE IF IsInf(a) THEN (IF IsInf(b) /\ a # b THEN NaN ELSE a)
    ELSE IF IsInf(b) THEN b
    ELSE LET g == GCD(a[2], b[2])
         IN  Norm(a[1] * (b[2] \div g) + b[1] * (a[2] \div g), (a[2] \div g) * b[2])

RNeg(a) == <<-a[1], a[2]>>
RSub(a, b) == RAdd(a, RNeg(b))
RMul(a, b) ==
    IF a[2] = 0 \/ b[2] = 0 THEN Norm(Sign(a[1]) * Sign(b[1]), 0)
    ELSE LET g1 == GCD(Abs(a[1]), b[2])
             g2 == GCD(Abs(b[1]), a[2])
         IN  Norm((a[1] \div g1) * (b[1] \div g2), (a[2] \div g2) * (b[2] \div g1))
RDiv(a, b) == IF IsInf(a) /\ IsInf(b) THEN NaN ELSE RMul(a, Norm(b[2], b[1]))

\* IEEE comparisons: every comparison with NaN is False
RLt(a, b) ==
    /\ ~IsNaN(a)
    /\ ~IsNaN(b)
    /\ IF a[2] = 0 \/ b[2] = 0
       THEN (IF a[2] = 0 /\ b[2] = 0 THEN a[1] < b[1]
             ELSE IF a[2] = 0 THEN a[1] < 0 ELSE b[1] > 0)
       ELSE LET g == GCD(a[2], b[2])
            IN  a[1] * (b[2] \div g) < b[1] * (a[2] \div g)
REq(a, b) == ~IsNaN(a) /\ ~IsNaN(b) /\ a = b
RLe(a, b) == REq(a, b) \/ RLt(a, b)
RGt(a, b) == RLt(b, a)
RGe(a, b) == RLe(b, a)

-----------------------------------------------------------------------------
(* numpy helpers.  A 2-d array is a sequence of rows, each a sequence. *)

Range(s) == {s[i] : i \in 1..Len(s)}

RECURSIVE SeqSum(_)
SeqSum(s) == IF s = <<>> THEN 0 ELSE Head(s) + SeqSum(Tail(s))

\* np.sum of a boolean array: the number of True elements
np_sum_bool(a) == SeqSum([i \in 1..Len(a) |-> SeqSum([j \in 1..Len(a[i]) |-> IF a[i][j] THEN 1 ELSE 0])])

NoOutcome == [kind |-> "none"]
Returned(v) == [kind |-> "return", value |-> v]
Raised(e) == [kind |-> "raise", exc |-> e]
Exited(s) == [kind |-> "exit", status |-> s]

\* all arrays with nr rows and nc columns over the values vals
Arrays(nr, nc, vals) == [1..nr -> [1..nc -> vals]]

-----------------------------------------------------------------------------
(* compute_war *)

WarMaxCells == 4

WarPixels == {NaN, R(-9), R(0), R(1), R(2)}
WarThresholds == {R(0), R(1), R(2)}
WarNoData == {R(-9), R(0)}

WarShapes == {<<0, 0>>} \cup
    {s \in (1..WarMaxCells) \X (1..WarMaxCells) : s[1] * s[2] <= WarMaxCells}

\* idxRain = rainfield >= rainThreshold
idxRain(rainfield, rainThreshold) ==
    [i \in 1..Len(rainfield) |-> [j \in 1..Len(rainfield[i]) |-> RGe(rainfield[i][j], rainThreshold)]]

\* idxRadarDomain = rainfield > noData + 1
idxRadarDomain(rainfield, noData) ==
    [i \in 1..Len(rainfield) |-> [j \in 1..Len(rainfield[i]) |-> RGt(rainfield[i][j], RAdd(noData, R(1)))]]

sys_maxsize == 2147483647

WarGuardNoCount(rainfield, rainThreshold, noData) ==
    /\ Len(idxRain(rainfield, rainThreshold)) >= 0
    /\ Len(idxRain(rainfield, rainThreshold)) < sys_maxsize
    /\ Len(idxRadarDomain(rainfield, noData)) >= 0
    /\ Len(idxRadarDomain(rainfield, noData)) < sys_maxsize
    /\ np_sum_bool(idxRadarDomain(rainfield, noData)) > 0

\* the condition of the if statement of compute_war
WarGuard(rainfield, rainThreshold, noData) ==
    /\ Len(idxRain(rainfield, rainThreshold)) >= 0
    /\ Len(idxRain(rainfield, rainThreshold)) < sys_maxsize
    /\ Len(idxRadarDomain(rainfield, noData)) >= 0
    /\ Len(idxRadarDomain(rainfield, noData)) < sys_maxsize
    /\ np_sum_bool(idxRain(rainfield, rainThreshold)) <= np_sum_bool(idxRadarDomain(rainfield, noData))
    /\ np_sum_bool(idxRadarDomain(rainfield, noData)) > 0

WarRatioGt(rainfield, rainThreshold, noData) ==
    LET gt == [i \in 1..Len(rainfield) |-> [j \in 1..Len(rainfield[i]) |-> RGt(rainfield[i][j], rainThreshold)]]
    IN  RDiv(RMul(R(100), R(np_sum_bool(gt))), R(np_sum_bool(idxRadarDomain(rainfield, noData))))

\* war = 100.0*np.sum(idxRain)/np.sum(idxRadarDomain)
WarRatio(rainfield, rainThreshold, noData) ==
    RDiv(RMul(R(100), R(np_sum_bool(idxRain(rainfield, rainThreshold)))),
         R(np_sum_bool(idxRadarDomain(rainfield, noData))))

compute_war(rainfield, rainThreshold, noData) ==
    IF WarGuard(rainfield, rainThreshold, noData)
    THEN WarRatio(rainfield, rainThreshold, noData)
    ELSE R(-1)

InitWar ==
    /\ pc = "compute_war"
    /\ \E s \in WarShapes :
         \E f \in Arrays(s[1], s[2], WarPixels) :
           \E t \in WarThresholds, nd \in WarNoData :
              args = [rainfield |-> f, rainThreshold |-> t, noData |-> nd]
    /\ mem = args.rainfield
    /\ loc = <<>>
    /\ outcome = NoOutcome

CallComputeWar ==
    /\ pc = "compute_war"
    /\ outcome' = Returned(compute_war(mem, args.rainThreshold, args.noData))
    /\ pc' = "done"
    /\ UNCHANGED <<args, mem, loc>>

NextWar == CallComputeWar

SpecWar == InitWar /\ [][NextWar]_vars

\* the pixels of the call's rainfield, as a set of index pairs
WarCells == {c \in (1..Len(args.rainfield)) \X (1..WarMaxCells + 1) : c[2] <= Len(args.rainfield[c[1]])}
WarRainCells == {c \in WarCells : RGe(args.rainfield[c[1]][c[2]], args.rainThreshold)}
WarDomainCells == {c \in WarCells : RGt(args.rainfield[c[1]][c[2]], RAdd(args.noData, R(1)))}

\* C1: whenever at least one pixel is > noData+1 and the pixels >= rainThreshold are
\* not more numerous than the pixels > noData+1, compute_war returns exactly
\* 100 * count(pixels >= rainThreshold) / count(pixels > noData+1).
C1_WarFormula ==
    (pc = "done" /\ Cardinality(WarDomainCells) > 0
                 /\ Cardinality(WarRainCells) <= Cardinality(WarDomainCells))
    => outcome = Returned(Norm(100 * Cardinality(WarRainCells), Cardinality(WarDomainCells)))

C1_Witness ==
    /\ pc = "done"
    /\ Cardinality(WarDomainCells) = 3
    /\ Cardinality(WarRainCells) = 1
    /\ outcome = Returned(<<100, 3>>)

\* C2: the value returned by compute_war is the error value -1 or lies in [0, 100],
\* and whenever it is not -1 every pixel counted as rain is a radar-domain pixel.
C2_WarPercentage ==
    pc = "done" =>
        /\ outcome.kind = "return"
        /\ \/ outcome.value = R(-1)
           \/ /\ RLe(R(0), outcome.value)
              /\ RLe(outcome.value, R(100))
              /\ WarRainCells \subseteq WarDomainCells

\* a call whose threshold lies below noData+1, with a pixel in between, that did not end in -1
C2_Witness ==
    /\ pc = "done"
    /\ outcome.value # R(-1)
    /\ RLe(args.rainThreshold, RAdd(args.noData, R(1)))
    /\ WarRainCells # {}
    /\ \E c \in WarCells : ~IsNaN(args.rainfield[c[1]][c[2]]) /\ c \notin WarDomainCells

-----------------------------------------------------------------------------
(* numpy / scipy / skimage helpers used by compute_fft_anisotropy *)

Min2(a, b) == IF a < b THEN a ELSE b
Max2(a, b) == IF a > b THEN a ELSE b

NumRows(a) == Len(a)
NumCols(a) == IF Len(a) = 0 THEN 0 ELSE Len(a[1])
Cells(a) == (1..NumRows(a)) \X (1..NumCols(a))

\* the 0-based indices selected by the Python slice start:stop of an axis of length n
PySlice(start, stop, n) ==
    LET clip(k) == IF k < 0 THEN Max2(k + n, 0) ELSE Min2(k, n)
        s == clip(start)
        e == clip(stop)
    IN  [k \in 1..Max2(e - s, 0) |-> s + k - 1]

\* A view is an array of (1-based) cells of the base array it shares memory with
ViewValues(base, view) ==
    [i \in 1..NumRows(view) |-> [j \in 1..NumCols(view) |-> base[view[i][j][1]][view[i][j][2]]]]

\* np.rot90(m): counterclockwise rotation, out[i, j] = m[j, ncols-1-i]
np_rot90(m) ==
    [i \in 1..NumCols(m) |-> [j \in 1..NumRows(m) |-> m[j][NumCols(m) + 1 - i]]]

RECURSIVE Flatten(_)
Flatten(a) == IF a = <<>> THEN <<>> ELSE Head(a) \o Flatten(Tail(a))

RECURSIVE RSum(_)
RSum(s) == IF s = <<>> THEN R(0) ELSE RAdd(Head(s), RSum(Tail(s)))

\* data.sum() of a 2-d float array
np_sum(a) == RSum(Flatten(a))

RECURSIVE Insert(_, _)
Insert(x, s) ==
    IF s = <<>> THEN <<x>>
    ELSE IF RLe(x, Head(s)) THEN <<x>> \o s
    ELSE <<Head(s)>> \o Insert(x, Tail(s))

RECURSIVE Sort(_)
Sort(s) == IF s = <<>> THEN <<>> ELSE Insert(Head(s), Sort(Tail(s)))

\* np.min of a NaN-free array
np_min(a) == Sort(Flatten(a))[1]

\* np.nanpercentile(values, q), linear interpolation between the two nearest ranks;
\* NaN (with a warning) when no value is left
np_nanpercentile(values, q) ==
    LET NotNaN(x) == ~IsNaN(x)
        srt == Sort(SelectSeq(values, NotNaN))
        n == Len(srt)
        rank == Norm((n - 1) * q, 100)
        lo == rank[1] \div rank[2]
        frac == RSub(rank, R(lo))
        a == srt[lo + 1]
        b == IF lo + 2 <= n THEN srt[lo + 2] ELSE a
    IN  IF n = 0 THEN NaN ELSE RAdd(a, RMul(frac, RSub(b, a)))

\* ndimage.gaussian_filter: the kernel spans int(4*sigma + 0.5) pixels on each side.
\* Only kernels of radius 0 (weights [1.0]) are modelled: the output is then a new
\* array holding the input values.
GaussianKernelRadius(sigma) ==
    LET x == RAdd(RMul(R(4), sigma), <<1, 2>>) IN x[1] \div x[2]
gaussian_filter(a, sigma) == a

Neighbours8(c, d) == c # d /\ Abs(c[1] - d[1]) <= 1 /\ Abs(c[2] - d[2]) <= 1

RECURSIVE Grow(_, _)
Grow(bin, S) ==
    LET N == {d \in Cells(bin) : bin[d[1]][d[2]] /\ d \notin S /\ \E c \in S : Neighbours8(c, d)}
    IN  IF N = {} THEN S ELSE Grow(bin, S \cup N)

\* the cells that measure.label (8-connectivity, background = 0) gives the label of cell c
SameLabel(bin, c) ==
    IF bin[c[1]][c[2]] THEN Grow(bin, {c})
    ELSE {d \in Cells(bin) : ~bin[d[1]][d[2]]}

-----------------------------------------------------------------------------
(* compute_fft_anisotropy *)

AnisoMaxDim == 4

\* input fields: 0 everywhere but in the centre pixel [rows/2, cols/2], in its left
\* neighbour and in one pixel placed anywhere
AnisoVals == {R(0), <<1, 100>>, <<1, 10>>, R(1)}
AnisoLeftVals == {R(0), R(1)}
AnisoFftSizeSub == {-1, 1}
AnisoPercentileZero == {-1, 50}
AnisoRadius == {-1, 1}
AnisoSigma == {R(-1), <<1, 10>>}

AnisoField(nr, nc, c, v, vc, vl) ==
    [i \in 1..nr |-> [j \in 1..nc |->
        IF <<i, j>> = c THEN v
        ELSE IF <<i, j>> = <<(nr \div 2) + 1, (nc \div 2) + 1>> THEN vc
        ELSE IF <<i, j>> = <<(nr \div 2) + 1, nc \div 2>> THEN vl
        ELSE R(0)]]

AnisoFields(nr, nc) ==
    {AnisoField(nr, nc, c, v, vc, vl) :
        c \in (1..nr) \X (1..nc), v \in AnisoVals, vc \in AnisoVals, vl \in AnisoLeftVals}

minThresholdCondition == <<1, 100>>
autocorrThreshold == <<1, 5>>

Unset == <<>>

InitAniso ==
    /\ pc = "validate"
    /\ \E nr \in 1..AnisoMaxDim, nc \in 1..AnisoMaxDim :
         \E f \in AnisoFields(nr, nc) :
           \E sub \in AnisoFftSizeSub, pz \in AnisoPercentileZero, rot \in BOOLEAN,
              rad \in AnisoRadius, sig \in AnisoSigma :
              args = [psd2d |-> f, fftSizeSub |-> sub, percentileZero |-> pz,
                      rotation |-> rot, radius |-> rad, sigma |-> sig]
    /\ mem = args.psd2d
    /\ loc = [fftSizeSub |-> Unset, psd2dsub |-> Unset, psd2dsubSmooth |-> Unset,
              percZero |-> Unset, psd2dsubSmoothShifted |-> Unset, mask |-> Unset,
              inertia |-> Unset]
    /\ outcome = NoOutcome

\* fftSizeSub = psd2d.shape[0]/2 when it is left at its default
DefaultFftSizeSub(fftSizeSub, shape) ==
    IF fftSizeSub = -1 THEN shape[1] \div 2 ELSE fftSizeSub

OddSizedRowsOnly(shape) == (shape[1] % 2) # 0

\* ((fftSize[0] % 2) != 0) or ((fftSize[1] % 2) != 0)
OddSized(shape) == (shape[1] % 2) # 0 \/ (shape[2] % 2) # 0

Shape(a) == <<NumRows(a), NumCols(a)>>

\* lines 243-250: default sub-domain size and the validation of the dimensions
Validate ==
    /\ pc = "validate"
    /\ loc' = [loc EXCEPT !.fftSizeSub = DefaultFftSizeSub(args.fftSizeSub, Shape(mem))]
    /\ IF OddSized(Shape(mem))
       THEN /\ pc' = "done"
            /\ outcome' = Exited(1)
       ELSE /\ pc' = "extract"
            /\ UNCHANGED outcome
    /\ UNCHANGED <<args, mem>>

\* psd2d[fftMiddleY-fftSizeSub:fftMiddleY+fftSizeSub, fftMiddleX-fftSizeSub:fftMiddleX+fftSizeSub]
\* as a view of psd2d
SubDomainView(shape, fftSizeSub) ==
    LET fftMiddleX == shape[2] \div 2
        fftMiddleY == shape[1] \div 2
        rws == PySlice(fftMiddleY - fftSizeSub, fftMiddleY + fftSizeSub, shape[1])
        cls == PySlice(fftMiddleX - fftSizeSub, fftMiddleX + fftSizeSub, shape[2])
    IN  [i \in 1..Len(rws) |-> [j \in 1..Len(cls) |-> <<rws[i] + 1, cls[j] + 1>>]]

\* lines 251-255
Extract ==
    /\ pc = "extract"
    /\ loc' = [loc EXCEPT !.psd2dsub = SubDomainView(Shape(mem), loc.fftSizeSub)]
    /\ pc' = "circular_mask"
    /\ UNCHANGED <<args, mem, outcome>>

\* y,x = np.ogrid[-fftSizeSub:fftSizeSub, -fftSizeSub:fftSizeSub]; mask = x**2+y**2 <= radius**2
CircularMask(fftSizeSub, radius) ==
    [i \in 1..(2 * fftSizeSub) |-> [j \in 1..(2 * fftSizeSub) |->
        (j - 1 - fftSizeSub) * (j - 1 - fftSizeSub) + (i - 1 - fftSizeSub) * (i - 1 - fftSizeSub)
            <= radius * radius]]

\* psd2dsub[~mask] = 0.0 writes through the view into the caller's array
MaskedInPlace(base, view, mask) ==
    [r \in 1..NumRows(base) |-> [c \in 1..NumCols(base) |->
        IF \E i \in 1..NumRows(view), j \in 1..NumCols(view) : view[i][j] = <<r, c>> /\ ~mask[i][j]
        THEN R(0) ELSE base[r][c]]]

\* lines 259-265; a boolean index of another shape than the indexed array is an IndexError
ApplyCircularMask ==
    /\ pc = "circular_mask"
    /\ IF args.radius = -1
       THEN /\ pc' = "rotation"
            /\ UNCHANGED <<mem, outcome>>
       ELSE IF Shape(CircularMask(loc.fftSizeSub, args.radius)) # Shape(loc.psd2dsub)
       THEN /\ pc' = "done"
            /\ outcome' = Raised("IndexError")
            /\ UNCHANGED mem
       ELSE /\ mem' = MaskedInPlace(mem, loc.psd2dsub, CircularMask(loc.fftSizeSub, args.radius))
            /\ pc' = "rotation"
            /\ UNCHANGED outcome
    /\ UNCHANGED <<args, loc>>

\* lines 269-270: np.rot90 returns a view too
Rotate ==
    /\ pc = "rotation"
    /\ loc' = [loc EXCEPT !.psd2dsub = IF args.rotation THEN np_rot90(loc.psd2dsub) ELSE loc.psd2dsub]
    /\ pc' = "smoothing"
    /\ UNCHANGED <<args, mem, outcome>>

\* lines 274-277: both branches make a new array
Smooth ==
    /\ pc = "smoothing"
    /\ RGt(args.sigma, R(0)) => GaussianKernelRadius(args.sigma) = 0
    /\ loc' = [loc EXCEPT !.psd2dsubSmooth =
                  IF RGt(args.sigma, R(0))
                  THEN gaussian_filter(ViewValues(mem, loc.psd2dsub), args.sigma)
                  ELSE ViewValues(mem, loc.psd2dsub)]
    /\ pc' = "percentile"
    /\ UNCHANGED <<args, mem, outcome>>

\* psd2dsubSmooth[psd2dsubSmooth > minThresholdCondition]
AboveCondition(psd2dsubSmooth) ==
    LET Above(x) == RGt(x, minThresholdCondition)
    IN  SelectSeq(Flatten(psd2dsubSmooth), Above)

\* lines 282-285
RawPercZero(psd2dsubSmooth, percentileZero) ==
    IF percentileZero > 0
    THEN np_nanpercentile(AboveCondition(psd2dsubSmooth), percentileZero)
    ELSE np_min(psd2dsubSmooth)

PercZeroNoFloor(psd2dsubSmooth, percentileZero) == RawPercZero(psd2dsubSmooth, percentileZero)

\* lines 282-293.  percZero == np.nan is False for every percZero, NaN included
PercZero(psd2dsubSmooth, percentileZero) ==
    LET p == RawPercZero(psd2dsubSmooth, percentileZero)
    IN  IF RGt(p, R(0)) /\ RLt(p, autocorrThreshold) THEN autocorrThreshold ELSE p

Percentile ==
    /\ pc = "percentile"
    /\ loc' = [loc EXCEPT !.percZero = PercZero(loc.psd2dsubSmooth, args.percentileZero)]
    /\ pc' = "shift"
    /\ UNCHANGED <<args, mem, outcome>>

\* lines 296-297
Shifted(psd2dsubSmooth, percZero) ==
    [i \in 1..NumRows(psd2dsubSmooth) |-> [j \in 1..NumCols(psd2dsubSmooth) |->
        LET d == RSub(psd2dsubSmooth[i][j], percZero)
        IN  IF RLt(d, R(0)) THEN R(0) ELSE d]]

Shift ==
    /\ pc = "shift"
    /\ loc' = [loc EXCEPT !.psd2dsubSmoothShifted = Shifted(loc.psd2dsubSmooth, loc.percZero)]
    /\ pc' = "segmentation"
    /\ UNCHANGED <<args, mem, outcome>>

\* lines 301-310: the pixels carrying the label of the centre pixel
CentralMask(shifted) ==
    LET bin == [i \in 1..NumRows(shifted) |-> [j \in 1..NumCols(shifted) |->
                   RGt(shifted[i][j], minThresholdCondition)]]
        centre == <<(NumRows(shifted) \div 2) + 1, (NumCols(shifted) \div 2) + 1>>
        keep == SameLabel(bin, centre)
    IN  [i \in 1..NumRows(shifted) |-> [j \in 1..NumCols(shifted) |->
            IF <<i, j>> \in keep THEN 1 ELSE 0]]

Segment ==
    /\ pc = "segmentation"
    /\ loc' = [loc EXCEPT !.mask = CentralMask(loc.psd2dsubSmoothShifted)]
    /\ pc' = "covariance"
    /\ UNCHANGED <<args, mem, outcome>>

RECURSIVE Pow(_, _)
Pow(b, e) == IF e = 0 THEN 1 ELSE b * Pow(b, e - 1)

\* _raw_moment: x is the column index, y the row index, both counted from 0
raw_moment(data, iord, jord) ==
    np_sum([i \in 1..NumRows(data) |-> [j \in 1..NumCols(data) |->
        RMul(data[i][j], R(Pow(j - 1, iord) * Pow(i - 1, jord)))]])

\* _intertial_axis
intertial_axis(data) ==
    LET data_sum == np_sum(data)
        m10 == raw_moment(data, 1, 0)
        m01 == raw_moment(data, 0, 1)
        x_bar == RDiv(m10, data_sum)
        y_bar == RDiv(m01, data_sum)
        u11 == RDiv(RSub(raw_moment(data, 1, 1), RMul(x_bar, m01)), data_sum)
        u20 == RDiv(RSub(raw_moment(data, 2, 0), RMul(x_bar, m10)), data_sum)
        u02 == RDiv(RSub(raw_moment(data, 0, 2), RMul(y_bar, m01)), data_sum)
    IN  [x_bar |-> x_bar, y_bar |-> y_bar, u20 |-> u20, u11 |-> u11, u02 |-> u02]

\* psd2dsubSmoothShifted*mask
MaskedField(shifted, mask) ==
    [i \in 1..NumRows(shifted) |-> [j \in 1..NumCols(shifted) |-> RMul(shifted[i][j], R(mask[i][j]))]]

\* line 318
Covariance ==
    /\ pc = "covariance"
    /\ loc' = [loc EXCEPT !.inertia = intertial_axis(MaskedField(loc.psd2dsubSmoothShifted, loc.mask))]
    /\ pc' = "eigh"
    /\ UNCHANGED <<args, mem, outcome>>

\* np.linalg.eigh of [[u20, u11], [u11, u02]]: the eigenvalues are (tr - sqrt(disc))/2 and
\* (tr + sqrt(disc))/2; they are kept as the pair tr, disc
eigh(cov) ==
    [tr |-> RAdd(cov.u20, cov.u02),
     disc |-> RAdd(RMul(RSub(cov.u20, cov.u02), RSub(cov.u20, cov.u02)),
                   RMul(R(4), RMul(cov.u11, cov.u11)))]

EigNaN(e) == IsNaN(e.tr) \/ IsNaN(e.disc)

\* sign of np.min(eigvals) = (tr - sqrt(disc))/2
EigMinSign(e) ==
    IF RLe(e.tr, R(0))
    THEN (IF e.tr = R(0) /\ e.disc = R(0) THEN 0 ELSE -1)
    ELSE Sign(RSub(RMul(e.tr, e.tr), e.disc)[1])

\* sign of np.max(eigvals) = (tr + sqrt(disc))/2
EigMaxSign(e) ==
    IF RGe(e.tr, R(0))
    THEN (IF e.tr = R(0) /\ e.disc = R(0) THEN 0 ELSE 1)
    ELSE Sign(RSub(e.disc, RMul(e.tr, e.tr))[1])

\* 1 - min/max = 2 sqrt(disc) / (tr + sqrt(disc)), written a + b*sqrt(disc) with a, b rational
OneMinusRatio(e) ==
    LET den == RSub(RMul(e.tr, e.tr), e.disc)
    IN  IF den = R(0) THEN [a |-> R(1), b |-> R(0), disc |-> e.disc]
        ELSE [a |-> RDiv(RMul(R(-2), e.disc), den), b |-> RDiv(RMul(R(2), e.tr), den), disc |-> e.disc]

\* math.sqrt(1-np.min(eigvals)/np.max(eigvals)) on numpy floats: 0/0 is nan, x/0 is inf,
\* math.sqrt(nan) is nan and math.sqrt of a negative number raises ValueError
Eccentricity(e) ==
    IF EigNaN(e) THEN [kind |-> "nan"]
    ELSE IF EigMaxSign(e) = 0
         THEN (IF EigMinSign(e) = 0 THEN [kind |-> "nan"] ELSE [kind |-> "inf"])
    ELSE IF EigMaxSign(e) < 0 /\ e.disc # R(0) THEN [kind |-> "ValueError"]
    ELSE [kind |-> "sqrt", of |-> OneMinusRatio(e)]

\* lines 321-330.  LAPACK either fails on a matrix of NaN (LinAlgError) or returns NaN
\* eigenvalues.  orientation and eigvecs are not modelled.
EighEccentricity ==
    /\ pc = "eigh"
    /\ LET cov == loc.inertia
           eigvals == eigh(cov)
           ecc == Eccentricity(eigvals)
       IN  \E lapackFails \in (IF EigNaN(eigvals) THEN BOOLEAN ELSE {FALSE}) :
             outcome' =
               IF lapackFails THEN Raised("LinAlgError")
               ELSE IF ecc.kind = "ValueError" THEN Raised("ValueError")
               ELSE Returned([psd2dsub |-> ViewValues(mem, loc.psd2dsub),
                              eccentricity |-> ecc,
                              xbar |-> cov.x_bar, ybar |-> cov.y_bar,
                              eigvals |-> eigvals,
                              percZero |-> loc.percZero,
                              psd2dsubSmooth |-> loc.psd2dsubSmooth])
    /\ pc' = "done"
    /\ UNCHANGED <<args, mem, loc>>

NextAniso ==
    \/ Validate
    \/ Extract
    \/ ApplyCircularMask
    \/ Rotate
    \/ Smooth
    \/ Percentile
    \/ Shift
    \/ Segment
    \/ Covariance
    \/ EighEccentricity

SpecAniso == InitAniso /\ [][NextAniso]_vars

\* the centre pixel [rows/2, cols/2] of an array
CentreOf(a) == <<(NumRows(a) \div 2) + 1, (NumCols(a) \div 2) + 1>>

AboveThreshold(a) ==
    [i \in 1..NumRows(a) |-> [j \in 1..NumCols(a) |-> RGt(a[i][j], minThresholdCondition)]]

\* C3: the field handed to the covariance computation is nonzero only at pixels whose
\* shifted value is above the 0.01 threshold and that are connected, through
\* above-threshold pixels, to the centre pixel; also when the centre pixel is at or
\* below the threshold.  (Calls whose percZero is NaN are left aside.)
C3_CentralLobeOnly ==
    pc \in {"eigh", "done"} /\ loc.mask # Unset /\ ~IsNaN(loc.percZero) =>
        LET shifted == loc.psd2dsubSmoothShifted
            data == MaskedField(shifted, loc.mask)
        IN  \A c \in Cells(shifted) :
              data[c[1]][c[2]] # R(0) =>
                /\ RGt(shifted[c[1]][c[2]], minThresholdCondition)
                /\ c \in Grow(AboveThreshold(shifted), {CentreOf(shifted)})

\* C4: the caller's psd2d holds the same values after the call as before it, for every
\* combination of the parameters.
C4_InputUnchanged ==
    pc = "done" /\ outcome.kind = "return" => mem = args.psd2d

AnisoOddInput == (Len(args.psd2d) % 2) = 1 \/ (Len(args.psd2d[1]) % 2) = 1

\* C5: whenever compute_fft_anisotropy returns on an even-sized input, the returned
\* eccentricity is sqrt(1 - min(eigvals)/max(eigvals)) of the returned eigvals and lies
\* in the range 0 to 1.  (Calls whose covariance matrix is NaN are left aside.)
C5_EccentricityRange ==
    pc = "done" /\ outcome.kind = "return" /\ ~AnisoOddInput /\ ~EigNaN(outcome.value.eigvals) =>
        LET e == outcome.value.eigvals
            ecc == outcome.value.eccentricity
        IN  /\ ecc.kind = "sqrt"
            /\ ecc.of = OneMinusRatio(e)
            /\ EigMaxSign(e) > 0
            /\ EigMinSign(e) >= 0

\* C6: an odd dimension ends the program with exit status 1 before any sub-domain is
\* extracted or psd2d is touched, and no result is returned; even dimensions never
\* end the program in the validation.
C6_Validation ==
    /\ AnisoOddInput =>
          /\ pc \in {"validate", "done"}
          /\ mem = args.psd2d
          /\ loc.psd2dsub = Unset
          /\ loc.psd2dsubSmooth = Unset
          /\ pc = "done" => outcome = Exited(1)
    /\ ~AnisoOddInput => outcome.kind # "exit"

C6_Witness ==
    /\ pc = "done"
    /\ outcome = Exited(1)
    /\ (Len(args.psd2d) % 2) = 0
    /\ (Len(args.psd2d[1]) % 2) = 1
    /\ args.radius # -1

\* the k-th smallest (k counted from 0) of the values of s, found by counting
OrderStatistic(s, k) ==
    CHOOSE v \in Range(s) :
        /\ Cardinality({i \in 1..Len(s) : RLt(s[i], v)}) <= k
        /\ Cardinality({i \in 1..Len(s) : RLe(s[i], v)}) > k

\* the q-th percentile of the values of s (s not empty), linear interpolation
PercentileOf(s, q) ==
    LET h == Norm((Len(s) - 1) * q, 100)
        lo == h[1] \div h[2]
        hi == IF R(lo) = h THEN lo ELSE lo + 1
        a == OrderStatistic(s, lo)
        b == OrderStatistic(s, hi)
    IN  RAdd(a, RMul(RSub(h, R(lo)), RSub(b, a)))

\* the smoothed values greater than 0.01, once the smoothed field exists
SmoothAbove ==
    LET sm == Flatten(loc.psd2dsubSmooth)
    IN  [k \in 1..Cardinality({i \in 1..Len(sm) : RGt(sm[i], minThresholdCondition)}) |->
            sm[CHOOSE i \in 1..Len(sm) :
                  /\ RGt(sm[i], minThresholdCondition)
                  /\ Cardinality({m \in 1..i : RGt(sm[m], minThresholdCondition)}) = k]]

AnisoShiftDone == pc \in {"segmentation", "covariance", "eigh", "done"} /\ loc.psd2dsubSmoothShifted # Unset

-----------------------------------------------------------------------------
(* compute_autocorrelation_fft2 and compute_autocorrelation_fft                    *)
(*                                                                                 *)
(* The chain np.fft.fft -> np.abs(.)**2/N -> np.fft.ifft is evaluated by the        *)
(* discrete Wiener-Khinchin identity: its real part at lag k is                     *)
(* (1/N) * sum over n of x[n] * x[(n+k) mod N] (and likewise in two dimensions).    *)
(* The returned powerSpectrum is not modelled.  Indices such as nr_samples/2 are    *)
(* truncated to integers, as the Python 2 / numpy the module was written for does.  *)

AcfMaxLen == 5
AcfMaxCells == 6

AcfVals == {R(-1), R(0), R(2)}

AcfShapes == {s \in (1..AcfMaxCells) \X (1..AcfMaxCells) : s[1] * s[2] <= AcfMaxCells}

\* a time series is handled as an image of one row
AsImage(timeSeries) == <<timeSeries>>

InitAcf ==
    /\ pc = "stats"
    /\ \/ \E n \in 1..AcfMaxLen : \E ts \in [1..n -> AcfVals] :
             args = [fn |-> "compute_autocorrelation_fft", data |-> AsImage(ts)]
       \/ \E sh \in AcfShapes : \E im \in Arrays(sh[1], sh[2], AcfVals) :
             args = [fn |-> "compute_autocorrelation_fft2", data |-> im]
    /\ mem = args.data
    /\ loc = [field_mean |-> Unset, field_var |-> Unset, autocovariance |-> Unset,
              autocorrelation |-> Unset]
    /\ outcome = NoOutcome

Size(a) == NumRows(a) * NumCols(a)

\* np.mean
np_mean(a) == RDiv(np_sum(a), R(Size(a)))

SquaredDeviations(a) ==
    [i \in 1..NumRows(a) |-> [j \in 1..NumCols(a) |->
        RMul(RSub(a[i][j], np_mean(a)), RSub(a[i][j], np_mean(a)))]]

np_var_ddof1(a) == RDiv(np_sum(SquaredDeviations(a)), R(Size(a) - 1))

\* np.var: the mean of the squared deviations from the mean
np_var(a) == RDiv(np_sum(SquaredDeviations(a)), R(Size(a)))

\* lines 346-348 and 394-396
AcfStats ==
    /\ pc = "stats"
    /\ loc' = [loc EXCEPT !.field_mean = np_mean(mem), !.field_var = np_var(mem)]
    /\ pc' = "spectrum"
    /\ UNCHANGED <<args, mem, outcome>>

\* imageArray - field_mean
Centred(a, field_mean) ==
    [i \in 1..NumRows(a) |-> [j \in 1..NumCols(a) |-> RSub(a[i][j], field_mean)]]

\* np.fft.ifft2(np.abs(np.fft.fft2(x))**2 / (rows*cols)).real
InverseOfPowerSpectrum(x) ==
    [k \in 1..NumRows(x) |-> [l \in 1..NumCols(x) |->
        RDiv(np_sum([i \in 1..NumRows(x) |-> [j \in 1..NumCols(x) |->
                 RMul(x[i][j], x[((i + k - 2) % NumRows(x)) + 1][((j + l - 2) % NumCols(x)) + 1])]]),
             R(Size(x)))]]

\* lines 351-367 and 399-415
AcfSpectrum ==
    /\ pc = "spectrum"
    /\ loc' = [loc EXCEPT !.autocovariance = InverseOfPowerSpectrum(Centred(mem, loc.field_mean))]
    /\ pc' = "normalise"
    /\ UNCHANGED <<args, mem, outcome>>

\* autocovariance.real/field_var
DivideBy(a, field_var) ==
    [i \in 1..NumRows(a) |-> [j \in 1..NumCols(a) |-> RDiv(a[i][j], field_var)]]

\* lines 370 and 418
AcfNormalise ==
    /\ pc = "normalise"
    /\ loc' = [loc EXCEPT !.autocorrelation = DivideBy(loc.autocovariance, loc.field_var)]
    /\ pc' = "finish"
    /\ UNCHANGED <<args, mem, outcome>>

\* np.fft.fftshift: the element of index 0 goes to index n/2 along each axis
np_fftshift(a) ==
    [i \in 1..NumRows(a) |-> [j \in 1..NumCols(a) |->
        a[((i - 1 - (NumRows(a) \div 2)) % NumRows(a)) + 1][((j - 1 - (NumCols(a) \div 2)) % NumCols(a)) + 1]]]

\* lines 373-378
AcfShiftReturn ==
    /\ pc = "finish"
    /\ args.fn = "compute_autocorrelation_fft2"
    /\ outcome' = Returned([autocorrelation |-> np_fftshift(loc.autocorrelation)])
    /\ pc' = "done"
    /\ UNCHANGED <<args, mem, loc>>

FirstHalfCeil(a, nr_samples) == SubSeq(a, 1, (nr_samples + 1) \div 2)

\* autocorrelation[0:nr_samples/2]
FirstHalf(a, nr_samples) == SubSeq(a, 1, nr_samples \div 2)

\* lines 421-426
AcfHalfReturn ==
    /\ pc = "finish"
    /\ args.fn = "compute_autocorrelation_fft"
    /\ outcome' = Returned([autocorrelation |-> FirstHalf(loc.autocorrelation[1], NumCols(mem))])
    /\ pc' = "done"
    /\ UNCHANGED <<args, mem, loc>>

NextAcf ==
    \/ AcfStats
    \/ AcfSpectrum
    \/ AcfNormalise
    \/ AcfShiftReturn
    \/ AcfHalfReturn

SpecAcf == InitAcf /\ [][NextAcf]_vars

AcfNonConstant == \E c \in Cells(args.data) : args.data[c[1]][c[2]] # args.data[1][1]

\* N*x[i][j] - sum(x), an integer multiple of the centred signal (the values are integers)
AcfScaled(i, j) ==
    Size(args.data) * args.data[i][j][1] - np_sum(args.data)[1]

\* the circular autocorrelation of the argument at lag (k, l), from the integers above
AcfLag(k, l) ==
    LET nr == NumRows(args.data)
        nc == NumCols(args.data)
        prod(c) == AcfScaled(c[1], c[2]) * AcfScaled(((c[1] - 1 + k) % nr) + 1, ((c[2] - 1 + l) % nc) + 1)
        RECURSIVE SumOver(_)
        SumOver(S) == IF S = {} THEN 0
                      ELSE LET c == CHOOSE c \in S : TRUE IN prod(c) + SumOver(S \ {c})
    IN  Norm(SumOver(Cells(args.data)),
             SeqSum([i \in 1..Size(args.data) |->
                        AcfScaled(((i - 1) \div nc) + 1, ((i - 1) % nc) + 1)
                      * AcfScaled(((i - 1) \div nc) + 1, ((i - 1) % nc) + 1)]))

-----------------------------------------------------------------------------
(* correlation_dimension: the fit of the log-log slope (fittingStrategy = 2)           *)
(*                                                                                     *)
(* The initial states are the states reached at line 493.  logRadii comes from         *)
(* np.linspace, so it is evenly spaced; it is measured from log10(r_min) in units of    *)
(* the spacing, which is taken to be positive (r_min < r_max).  No Cr is 0 (the         *)
(* diagonal of lp_distances is below every radius), so len(radii) = nrSteps.  logCr is  *)
(* non-decreasing and rises between the first two radii: r_min is the smallest         *)
(* nonzero distance, not counted at radii[0] and counted from radii[1] on.             *)

CorrDimMaxSteps == 25
CorrDimStepsSpan == 6

nrPointsFitting == 20

CorrDimFirstLog == {-4, 0}
CorrDimFirstRise == {1, 2}
CorrDimRise == {0, 1, 3}
CorrDimKnee == {2, 10, 22}

\* logCr: starts at y0, rises by first, then by riseA per radius up to index knee, then by riseB
LogCrCurve(n, y0, first, riseA, riseB, knee) ==
    [i \in 1..n |->
        IF i = 1 THEN R(y0)
        ELSE IF i <= knee THEN R(y0 + first + (i - 2) * riseA)
        ELSE R(y0 + first + (Max2(knee, 2) - 2) * riseA + (i - Max2(knee, 2)) * riseB)]

InitCorrDim ==
    /\ pc = "fit_init"
    /\ \E n \in (CorrDimMaxSteps - CorrDimStepsSpan)..CorrDimMaxSteps :
         \E y0 \in CorrDimFirstLog, first \in CorrDimFirstRise, riseA \in CorrDimRise,
            riseB \in CorrDimRise, knee \in CorrDimKnee :
            args = [nrSteps |-> n,
                    logRadii |-> [i \in 1..n |-> R(i - 1)],
                    logCr |-> LogCrCurve(n, y0, first, riseA, riseB, knee)]
    /\ mem = <<>>
    /\ loc = [startIdx |-> Unset, maxSlope |-> Unset, maxIntercept |-> Unset]
    /\ outcome = NoOutcome

\* lines 512-514
FitInit ==
    /\ pc = "fit_init"
    /\ loc' = [loc EXCEPT !.startIdx = 0, !.maxSlope = R(0)]
    /\ pc' = "fit_loop"
    /\ UNCHANGED <<args, mem, outcome>>

\* sp.polyfit(x, y, 1): the least-squares line, [slope, intercept]
polyfit1(x, y) ==
    LET n == R(Len(x))
        sx == RSum(x)
        sy == RSum(y)
        sxy == RSum([i \in 1..Len(x) |-> RMul(x[i], y[i])])
        sxx == RSum([i \in 1..Len(x) |-> RMul(x[i], x[i])])
        slope == RDiv(RSub(RMul(n, sxy), RMul(sx, sy)), RSub(RMul(n, sxx), RMul(sx, sx)))
    IN  <<slope, RDiv(RSub(sy, RMul(slope, sx)), n)>>

\* np.arange(startIdx, startIdx+nrPointsFitting) used as an index
Window(a, startIdx) == SubSeq(a, startIdx + 1, startIdx + nrPointsFitting)

\* lines 515-523: one pass of the while loop
FitWindow ==
    /\ pc = "fit_loop"
    /\ loc.startIdx < Len(args.logRadii) - nrPointsFitting
    /\ LET reg == polyfit1(Window(args.logRadii, loc.startIdx), Window(args.logCr, loc.startIdx))
           slope == reg[1]
           intercept == reg[2]
       IN  loc' = [loc EXCEPT
                     !.maxSlope = IF RGt(slope, loc.maxSlope) THEN slope ELSE @,
                     !.maxIntercept = IF RGt(slope, loc.maxSlope) THEN intercept ELSE @,
                     !.startIdx = @ + 2]
    /\ UNCHANGED <<pc, args, mem, outcome>>

\* lines 524-527 and 549: intercept = maxIntercept reads a local that is bound only once
\* a window had a positive slope
FitFinish ==
    /\ pc = "fit_loop"
    /\ ~(loc.startIdx < Len(args.logRadii) - nrPointsFitting)
    /\ outcome' = IF loc.maxIntercept = Unset
                  THEN Raised("UnboundLocalError")
                  ELSE Returned([fractalDim |-> loc.maxSlope, intercept |-> loc.maxIntercept])
    /\ pc' = "done"
    /\ UNCHANGED <<args, mem, loc>>

NextCorrDim ==
    \/ FitInit
    \/ FitWindow
    \/ FitFinish

SpecCorrDim == InitCorrDim /\ [][NextCorrDim]_vars

\* the start indices 0, 2, 4, ... below len(radii) - 20
CorrDimStarts == {k \in 0..Len(args.logRadii) : k % 2 = 0 /\ k < Len(args.logRadii) - nrPointsFitting}

CorrDimSlope(k) == polyfit1(Window(args.logRadii, k), Window(args.logCr, k))[1]
CorrDimIntercept(k) == polyfit1(Window(args.logRadii, k), Window(args.logCr, k))[2]

\* C9: the function returns the largest slope fitted over the windows of 20 consecutive
\* points starting at 0, 2, 4, ..., together with the intercept fitted on that window.
C9_MaxSlopeReturned ==
    pc = "done" =>
        /\ outcome.kind = "return"
        /\ \E k \in CorrDimStarts :
             /\ outcome.value.fractalDim = CorrDimSlope(k)
             /\ outcome.value.intercept = CorrDimIntercept(k)
             /\ \A m \in CorrDimStarts : RLe(CorrDimSlope(m), CorrDimSlope(k))

-----------------------------------------------------------------------------
(* logarithmic_r                                                                       *)
(*                                                                                     *)
(* np.log and the division are taken exactly: max_i is the largest i with              *)
(* min_n * factor^i <= max_n.                                                          *)

LogRMaxN == 9

LogRMinValues == {<<1, 2>>, R(1), R(2), R(3)}
LogRMaxValues == {R(k) : k \in 1..LogRMaxN} \cup {<<3, 2>>, <<9, 4>>}
LogRFactors == {<<1, 2>>, R(1), <<3, 2>>, R(2), R(3)}

InitLogR ==
    /\ pc = "assert"
    /\ \E min_n \in LogRMinValues, max_n \in LogRMaxValues, factor \in LogRFactors :
         args = [min_n |-> min_n, max_n |-> max_n, factor |-> factor]
    /\ mem = <<>>
    /\ loc = [max_i |-> Unset]
    /\ outcome = NoOutcome

\* lines 564-565
LogRAssert ==
    /\ pc = "assert"
    /\ IF RGt(args.max_n, args.min_n) /\ RGt(args.factor, R(1))
       THEN pc' = "max_i" /\ UNCHANGED outcome
       ELSE pc' = "done" /\ outcome' = Raised("AssertionError")
    /\ UNCHANGED <<args, mem, loc>>

\* factor ** i
RECURSIVE RPow(_, _)
RPow(b, e) == IF e = 0 THEN R(1) ELSE RMul(b, RPow(b, e - 1))

\* int(np.floor(np.log(x) / np.log(factor))) for x >= 1 and factor > 1
RECURSIVE FloorLog(_, _, _)
FloorLog(x, factor, i) ==
    IF RLe(RPow(factor, i + 1), x) THEN FloorLog(x, factor, i + 1) ELSE i

LogRMaxI(min_n, max_n, factor) == FloorLog(RDiv(RMul(R(1), max_n), min_n), factor, 0)

\* line 566
LogRComputeMaxI ==
    /\ pc = "max_i"
    /\ loc' = [loc EXCEPT !.max_i = LogRMaxI(args.min_n, args.max_n, args.factor)]
    /\ pc' = "list"
    /\ UNCHANGED <<args, mem, outcome>>

\* line 568
LogRList ==
    /\ pc = "list"
    /\ outcome' = Returned([k \in 1..(loc.max_i + 1) |-> RMul(args.min_n, RPow(args.factor, k - 1))])
    /\ pc' = "done"
    /\ UNCHANGED <<args, mem, loc>>

NextLogR ==
    \/ LogRAssert
    \/ LogRComputeMaxI
    \/ LogRList

SpecLogR == InitLogR /\ [][NextLogR]_vars

LogRValid == RGt(args.min_n, R(0)) /\ RGt(args.max_n, args.min_n) /\ RGt(args.factor, R(1))

\* C10: for min_n > 0, max_n > min_n and factor > 1 the returned list is min_n * factor^k
\* for k = 0..i, starts with min_n, has every element strictly below max_n, and
\* min_n * factor^(i+1) is not below max_n; for max_n <= min_n or factor <= 1 the call
\* raises an assertion error.
C10_LogarithmicR ==
    pc = "done" =>
        IF LogRValid
        THEN /\ outcome.kind = "return"
             /\ Len(outcome.value) >= 1
             /\ outcome.value[1] = args.min_n
             /\ \A k \in 1..Len(outcome.value) :
                  /\ outcome.value[k] = RMul(args.min_n, RPow(args.factor, k - 1))
                  /\ RLt(outcome.value[k], args.max_n)
             /\ ~RLt(RMul(args.min_n, RPow(args.factor, Len(outcome.value))), args.max_n)
        ELSE outcome = Raised("AssertionError")

-----------------------------------------------------------------------------
(* get_level_from_scale and isPower                                                    *)
(*                                                                                     *)
(* Python integers are unbounded; the doubled resKM is kept only up to LevelCeiling,    *)
(* which is above every scaleKM considered: a larger resKM can never equal scaleKM      *)
(* again, since resKM only grows.  loc.bound is the set of local names that have been   *)
(* assigned; t and level hold a placeholder until they are in it.                      *)

LevelMaxRes == 4
LevelMaxScale == 40

LevelCeiling == 4 * LevelMaxScale

LevelRangeEnd == 50

InitLevel ==
    /\ pc = "checks"
    /\ \E resKM \in 1..LevelMaxRes, scaleKM \in 0..LevelMaxScale :
         args = [resKM |-> resKM, scaleKM |-> scaleKM]
    /\ mem = <<>>
    /\ loc = [resKM |-> args.resKM, t |-> 0, level |-> 0, bound |-> {"resKM"}]
    /\ outcome = NoOutcome

\* base ** e for integers
RECURSIVE IntPow(_, _)
IntPow(b, e) == IF e = 0 THEN 1 ELSE b * IntPow(b, e - 1)

\* int(math.log(n, base) + .5) for n >= 1 and base >= 2: the largest k with
\* base^(k - 1/2) <= n, i.e. base^(2k-1) <= n^2
RECURSIVE RoundedLog(_, _, _)
RoundedLog(n, base, k) ==
    IF IntPow(base, 2 * k + 1) <= n * n THEN RoundedLog(n, base, k + 1) ELSE k

\* isPower, for n >= 1 (math.log raises ValueError for n <= 0)
isPower(n, base) == IntPow(base, RoundedLog(n, base, 0)) = n

\* lines 805-810
LevelChecks ==
    /\ pc = "checks"
    /\ IF args.resKM = args.scaleKM
       THEN pc' = "done" /\ outcome' = Exited(0)
       ELSE IF args.scaleKM <= 0
       THEN pc' = "done" /\ outcome' = Raised("ValueError")
       ELSE IF isPower(args.scaleKM, args.resKM * 2) = FALSE
       THEN pc' = "done" /\ outcome' = Exited(0)
       ELSE pc' = "loop" /\ UNCHANGED outcome
    /\ UNCHANGED <<args, mem, loc>>

\* the next element of range(0,50)
LevelNextT == IF "t" \in loc.bound THEN loc.t + 1 ELSE 0

\* lines 812-815: one pass of the for loop
LevelIterate ==
    /\ pc = "loop"
    /\ LevelNextT < LevelRangeEnd
    /\ LET doubled == Min2(loc.resKM * 2, LevelCeiling)
       IN  loc' = [loc EXCEPT !.t = LevelNextT,
                              !.resKM = doubled,
                              !.level = IF doubled = args.scaleKM THEN LevelNextT ELSE @,
                              !.bound = IF doubled = args.scaleKM THEN @ \cup {"t", "level"}
                                        ELSE @ \cup {"t"}]
    /\ UNCHANGED <<pc, args, mem, outcome>>

\* line 816: return(level) reads a local that is bound only once resKM == scaleKM held
LevelReturn ==
    /\ pc = "loop"
    /\ ~(LevelNextT < LevelRangeEnd)
    /\ outcome' = IF "level" \in loc.bound THEN Returned(loc.level) ELSE Raised("UnboundLocalError")
    /\ pc' = "done"
    /\ UNCHANGED <<args, mem, loc>>

NextLevel ==
    \/ LevelChecks
    \/ LevelIterate
    \/ LevelReturn

SpecLevel == InitLevel /\ [][NextLevel]_vars

\* C11: for every (positive) scaleKM <= resKM get_level_from_scale prints its error and
\* exits; it neither returns a level nor fails in another way.
C11_ExitsWhenScaleNotLarger ==
    pc = "done" /\ args.scaleKM >= 1 /\ args.scaleKM <= args.resKM => outcome.kind = "exit"

\* C14: for positive integers that pass both checks (resKM # scaleKM and
\* isPower(scaleKM, 2*resKM)) the function returns a level t in 0..49 with
\* resKM * 2^(t+1) = scaleKM, and never returns with level unassigned.  The pairs with
\* scaleKM < resKM are left to C11.
C14_LevelReturned ==
    pc = "done" /\ args.scaleKM > args.resKM /\ isPower(args.scaleKM, args.resKM * 2) =>
        /\ outcome.kind = "return"
        /\ outcome.value \in 0..(LevelRangeEnd - 1)
        /\ args.resKM * IntPow(2, outcome.value + 1) = args.scaleKM

-----------------------------------------------------------------------------
(* update_mean                                                                         *)

MeanMaxLen == 3

MeanVals == {NaN, R(0), R(1), R(3)}
MeanSamples == {NaN, R(0), R(2)}

InitMean ==
    /\ pc = "stats"
    /\ \E k \in 0..MeanMaxLen : \E data \in [1..k -> MeanVals] : \E newSample \in MeanSamples :
         args = [data |-> data, newSample |-> newSample]
    /\ mem = args.data
    /\ loc = [oldMean |-> NaN, n |-> 0, delta |-> NaN, newMean |-> NaN, bound |-> {}]
    /\ outcome = NoOutcome

\* data[~np.isnan(data)]
NotNaNValues(data) == SelectSeq(data, LAMBDA v : ~IsNaN(v))

\* np.nanmean: the mean of the values that are not NaN, NaN when there is none
np_nanmean(data) ==
    IF NotNaNValues(data) = <<>> THEN NaN
    ELSE RDiv(RSum(NotNaNValues(data)), R(Len(NotNaNValues(data))))

\* lines 685-688
MeanStats ==
    /\ pc = "stats"
    /\ loc' = [loc EXCEPT !.oldMean = np_nanmean(mem),
                          !.n = Len(NotNaNValues(mem)) + 1,
                          !.bound = @ \cup {"oldMean", "n"}]
    /\ pc' = "delta"
    /\ UNCHANGED <<args, mem, outcome>>

\* line 690
MeanDelta ==
    /\ pc = "delta"
    /\ loc' = [loc EXCEPT !.delta = RSub(args.newSample, loc.oldMean), !.bound = @ \cup {"delta"}]
    /\ pc' = "update"
    /\ UNCHANGED <<args, mem, outcome>>

\* lines 692-697: newMean += delta/n reads newMean before anything was assigned to it
MeanUpdate ==
    /\ pc = "update"
    /\ IF "newMean" \in loc.bound
       THEN /\ loc' = [loc EXCEPT !.newMean = RAdd(@, RDiv(loc.delta, R(loc.n)))]
            /\ outcome' = IF loc.n < 2 THEN Returned(NaN) ELSE Returned(loc'.newMean)
       ELSE /\ outcome' = Raised("UnboundLocalError")
            /\ UNCHANGED loc
    /\ pc' = "done"
    /\ UNCHANGED <<args, mem>>

NextMean ==
    \/ MeanStats
    \/ MeanDelta
    \/ MeanUpdate

SpecMean == InitMean /\ [][NextMean]_vars

\* C12: for data with at least one non-NaN value update_mean returns
\* oldMean + (newSample - oldMean)/n, with oldMean the mean of the non-NaN values of data
\* and n their count plus one; for data without a non-NaN value it returns NaN.
C12_OnlineMean ==
    pc = "done" =>
        LET kept == NotNaNValues(args.data)
            oldMean == RDiv(RSum(kept), R(Len(kept)))
        IN  IF kept # <<>>
            THEN outcome = Returned(RAdd(oldMean, RDiv(RSub(args.newSample, oldMean), R(Len(kept) + 1))))
            ELSE outcome = Returned(NaN)

-----------------------------------------------------------------------------
(* compute_war_array                                                                   *)

WarArrayMaxFields == 2

WarArrayPixels == {R(-9), R(0), R(2)}
WarArrayShapes == {<<0, 0>>, <<1, 1>>, <<1, 2>>, <<2, 1>>}
WarArrayFieldSet == UNION {Arrays(s[1], s[2], WarArrayPixels) : s \in WarArrayShapes}

InitWarArray ==
    /\ pc = "loop"
    /\ \E k \in 0..WarArrayMaxFields : \E fields \in [1..k -> WarArrayFieldSet] :
         \E t \in WarThresholds, nd \in WarNoData :
            args = [rainfieldArray |-> fields, rainThreshold |-> t, noData |-> nd]
    /\ mem = args.rainfieldArray
    /\ loc = [i |-> 0, warArray |-> <<>>]
    /\ outcome = NoOutcome

WarPrepend(warArray, war) == <<war>> \o warArray

\* warArray.append(war)
WarAppend(warArray, war) == Append(warArray, war)

\* lines 53-55: one pass of the for loop; loc.i counts the fields done
WarArrayIterate ==
    /\ pc = "loop"
    /\ loc.i < Len(mem)
    /\ loc' = [loc EXCEPT
                 !.warArray = WarAppend(@, compute_war(mem[loc.i + 1], args.rainThreshold, args.noData)),
                 !.i = @ + 1]
    /\ UNCHANGED <<pc, args, mem, outcome>>

\* np.array of a list of numbers: the same numbers, as floats
np_array(list) == [k \in 1..Len(list) |-> RMul(R(1), list[k])]

\* lines 56-57
WarArrayReturn ==
    /\ pc = "loop"
    /\ ~(loc.i < Len(mem))
    /\ outcome' = Returned(np_array(loc.warArray))
    /\ pc' = "done"
    /\ UNCHANGED <<args, mem, loc>>

NextWarArray ==
    \/ WarArrayIterate
    \/ WarArrayReturn

SpecWarArray == InitWarArray /\ [][NextWarArray]_vars

\* the numbers of pixels >= rainThreshold and > noData+1 of the k-th input field
WarArrayRainCount(k) ==
    LET f == args.rainfieldArray[k]
    IN  Cardinality({c \in Cells(f) : RGe(f[c[1]][c[2]], args.rainThreshold)})
WarArrayDomainCount(k) ==
    LET f == args.rainfieldArray[k]
    IN  Cardinality({c \in Cells(f) : RGt(f[c[1]][c[2]], RAdd(args.noData, R(1)))})

\* C13: compute_war_array returns one value per input field, in input order, each the
\* compute_war of that field; a field without a pixel > noData+1, or with more pixels
\* >= rainThreshold than pixels > noData+1, gives -1 at its position, nothing is raised
\* and the other fields are still processed.
C13_WarArray ==
    pc = "done" =>
        /\ outcome.kind = "return"
        /\ Len(outcome.value) = Len(args.rainfieldArray)
        /\ \A k \in 1..Len(args.rainfieldArray) :
             /\ outcome.value[k] = compute_war(args.rainfieldArray[k], args.rainThreshold, args.noData)
             /\ IF WarArrayDomainCount(k) = 0 \/ WarArrayRainCount(k) > WarArrayDomainCount(k)
                THEN outcome.value[k] = R(-1)
                ELSE outcome.value[k] = Norm(100 * WarArrayRainCount(k), WarArrayDomainCount(k))

\* a field with more rain pixels than domain pixels first, a good field second: -1, then 100
C13_Witness ==
    /\ pc = "done"
    /\ Len(args.rainfieldArray) = 2
    /\ WarArrayRainCount(1) > WarArrayDomainCount(1)
    /\ WarArrayDomainCount(2) = 2
    /\ outcome = Returned(<<R(-1), R(100)>>)

-----------------------------------------------------------------------------
(* generate_wavelet_noise                                                              *)
(*                                                                                     *)
(* The coefficient values are not modelled, only the layout of the list returned by     *)
(* pywt.wavedec2 and which of its entries have been multiplied by noise.  An entry is   *)
(* [what, level, parts, perturbed]: the approximation cA_n (its parts are its rows) or  *)
(* the details of a level (its parts are cH, cV, cD); perturbed is the set of the       *)
(* 0-based indices of the parts that were overwritten.  The field is taken to be large  *)
(* enough for nrLevels levels.                                                         *)

NoiseMaxLevels == 3
NoiseMaxMembers == 2

NoiseApproxRows == {1, 2}

\* the values of level2perturb: 'all', an int, a list, an np.ndarray, anything else
NoiseLevelArgs(nrLevels) ==
    {[type |-> "str", value |-> <<>>]} \cup
    {[type |-> "int", value |-> <<l>>] : l \in 0..(nrLevels + 1)} \cup
    {[type |-> "list", value |-> <<l, m>>] : l \in 1..nrLevels, m \in 1..nrLevels} \cup
    {[type |-> "ndarray", value |-> <<l>>] : l \in 1..nrLevels} \cup
    {[type |-> "float", value |-> <<>>]}

InitNoise ==
    /\ pc = "decompose"
    /\ \E n \in 1..NoiseMaxLevels, rows \in NoiseApproxRows, members \in 0..NoiseMaxMembers :
         \E l2p \in NoiseLevelArgs(n) :
            args = [nrLevels |-> n, approxRows |-> rows, level2perturb |-> l2p, nrMembers |-> members]
    /\ mem = <<>>
    /\ loc = [coeffsRain |-> <<>>, member |-> 0, levels |-> <<>>, stochasticEnsemble |-> <<>>]
    /\ outcome = NoOutcome

\* pywt.wavedec2(data, wavelet, level=n): [cA_n, (cH_n, cV_n, cD_n), ..., (cH_1, cV_1, cD_1)]
wavedec2(n, approxRows) ==
    [k \in 1..(n + 1) |->
        IF k = 1 THEN [what |-> "cA", level |-> n, parts |-> approxRows, perturbed |-> {}]
        ELSE [what |-> "details", level |-> n + 2 - k, parts |-> 3, perturbed |-> {}]]

\* line 745
NoiseDecompose ==
    /\ pc = "decompose"
    /\ loc' = [loc EXCEPT !.coeffsRain = wavedec2(args.nrLevels, args.approxRows)]
    /\ pc' = "member"
    /\ UNCHANGED <<args, mem, outcome>>

\* np.arange(1,nrLevels).tolist()
AllLevels(nrLevels) == [k \in 1..(nrLevels - 1) |-> k]

\* lines 748-765: the start of a pass of the member loop, up to the list of levels
NoiseMember ==
    /\ pc = "member"
    /\ loc.member < args.nrMembers
    /\ LET l2p == args.level2perturb
       IN  IF l2p.type = "str"
           THEN loc' = [loc EXCEPT !.levels = AllLevels(args.nrLevels)] /\ pc' = "levels" /\ UNCHANGED outcome
           ELSE IF l2p.type \in {"int", "list"}
           THEN loc' = [loc EXCEPT !.levels = l2p.value] /\ pc' = "levels" /\ UNCHANGED outcome
           ELSE IF l2p.type = "ndarray"
           THEN outcome' = Raised("AttributeError") /\ pc' = "done" /\ UNCHANGED loc
           ELSE outcome' = Exited(0) /\ pc' = "done" /\ UNCHANGED loc
    /\ UNCHANGED <<args, mem>>

\* the 1-based position selected by the Python index i of a list of length n, 0 when out of range
PyIndex(i, n) == IF i >= 0 /\ i < n THEN i + 1 ELSE IF i < 0 /\ i + n >= 0 THEN i + n + 1 ELSE 0

\* levelReversed = nrLevels - level
levelReversed(nrLevels, level) == nrLevels - level

\* range(0,2)
NoiseDirections == {0, 1}

\* lines 768-791: one pass of the loop over levels2perturbList
NoisePerturb ==
    /\ pc = "levels"
    /\ loc.levels # <<>>
    /\ LET level == Head(loc.levels)
           pos == PyIndex(levelReversed(args.nrLevels, level), Len(loc.coeffsRain))
       IN  IF pos = 0
           THEN outcome' = Raised("IndexError") /\ pc' = "done" /\ UNCHANGED loc
           ELSE LET entry == loc.coeffsRain[pos]
                    reached == {d \in NoiseDirections : d < entry.parts}
                IN  /\ loc' = [loc EXCEPT !.coeffsRain[pos].perturbed = @ \cup reached,
                                          !.levels = Tail(@)]
                    /\ IF reached = NoiseDirections
                       THEN UNCHANGED <<pc, outcome>>
                       ELSE outcome' = Raised("IndexError") /\ pc' = "done"
    /\ UNCHANGED <<args, mem>>

\* lines 794-797: pywt.waverec2 of the coefficients as they are now
NoiseReconstruct ==
    /\ pc = "levels"
    /\ loc.levels = <<>>
    /\ loc' = [loc EXCEPT !.stochasticEnsemble = Append(@, loc.coeffsRain), !.member = @ + 1]
    /\ pc' = "member"
    /\ UNCHANGED <<args, mem, outcome>>

\* line 799
NoiseReturn ==
    /\ pc = "member"
    /\ ~(loc.member < args.nrMembers)
    /\ outcome' = Returned(loc.stochasticEnsemble)
    /\ pc' = "done"
    /\ UNCHANGED <<args, mem, loc>>

NextNoise ==
    \/ NoiseDecompose
    \/ NoiseMember
    \/ NoisePerturb
    \/ NoiseReconstruct
    \/ NoiseReturn

SpecNoise == InitNoise /\ [][NextNoise]_vars

\* the positions of coeffsRain that have been modified
NoiseModified == {k \in 1..Len(loc.coeffsRain) : loc.coeffsRain[k].perturbed # {}}

\* the position holding the details of a level
NoiseDetailsOf(level) ==
    {k \in 1..Len(loc.coeffsRain) : loc.coeffsRain[k].what = "details" /\ loc.coeffsRain[k].level = level}

\* C15: with level2perturb a level L of 1..nrLevels the entry modified is the one holding
\* the level-L details; the approximation entry (index 0) is never modified; with
\* level2perturb = 'all' the details of every level 1..nrLevels are modified.
C15_PerturbedLevels ==
    pc = "done" /\ args.nrMembers >= 1 =>
        /\ 1 \notin NoiseModified
        /\ args.level2perturb.type = "int" /\ args.level2perturb.value[1] \in 1..args.nrLevels
              => NoiseModified = NoiseDetailsOf(args.level2perturb.value[1])
        /\ args.level2perturb.type = "str"
              => NoiseModified = UNION {NoiseDetailsOf(l) : l \in 1..args.nrLevels}

-----------------------------------------------------------------------------
(* correlation_dimension: distances, radii and the correlation sum (lines 454-489)     *)
(*                                                                                     *)
(* dataArray has one column, for which every Minkowski distance is |x_a - x_b|.  A      *)
(* radius 10**radiiLog[i] is kept as [r_min, ratio, i, den], standing for               *)
(* r_min * ratio^(i/den) with ratio = r_max/r_min and den = nrSteps - 1, so that        *)
(* lp_distances < r is decided exactly: d < r iff (d/r_min)^den < ratio^i.              *)

CorrMaxPoints == 3
CorrMaxRadii == 4

CorrCoords == {0, 1, 3, 4}

InitCorrSum ==
    /\ pc = "distances"
    /\ \E n \in 2..CorrMaxPoints, nrSteps \in 1..CorrMaxRadii :
         \E x \in [1..n -> CorrCoords] :
            args = [dataArray |-> [a \in 1..n |-> <<R(x[a])>>], nrSteps |-> nrSteps]
    /\ mem = <<>>
    /\ loc = [nr_samples |-> Len(args.dataArray), lp_distances |-> <<>>, radii |-> <<>>,
              next |-> 0, Cr |-> <<>>]
    /\ outcome = NoOutcome

RAbs(a) == IF RLt(a, R(0)) THEN RNeg(a) ELSE a

\* dist.squareform(dist.pdist(dataArray)): the full symmetric matrix, zeros on the diagonal
squareform_pdist(dataArray) ==
    [a \in 1..Len(dataArray) |-> [b \in 1..Len(dataArray) |->
        RAbs(RSub(dataArray[a][1], dataArray[b][1]))]]

\* line 459
CorrDistances ==
    /\ pc = "distances"
    /\ loc' = [loc EXCEPT !.lp_distances = squareform_pdist(args.dataArray)]
    /\ pc' = "radii"
    /\ UNCHANGED <<args, mem, outcome>>

\* lp_distances[lp_distances != 0], sorted
NonZeroSorted(d) == Sort(SelectSeq(Flatten(d), LAMBDA v : v # R(0)))

\* np.percentile(a, 0.01) of a sorted non-empty a: linear interpolation at rank 0.0001*(len-1)
np_percentile_001(a) ==
    LET rank == RMul(<<1, 10000>>, R(Len(a) - 1))
        lo == rank[1] \div rank[2]
        frac == RSub(rank, R(lo))
    IN  IF lo + 1 >= Len(a) THEN a[Len(a)]
        ELSE RAdd(a[lo + 1], RMul(frac, RSub(a[lo + 2], a[lo + 1])))

\* np.max
np_max(a) == CHOOSE v \in Range(Flatten(a)) : \A w \in Range(Flatten(a)) : RLe(w, v)

\* 10**np.linspace(np.log10(r_min), np.log10(r_max), nrSteps)
LogSpacedRadii(r_min, r_max, nrSteps) ==
    [k \in 1..nrSteps |-> [r_min |-> r_min, ratio |-> RDiv(r_max, r_min), i |-> k - 1, den |-> nrSteps - 1]]

\* lines 473-477; with no nonzero distance np.percentile has nothing to take a percentile
\* of: it raises IndexError or gives nan, depending on the numpy version, and every
\* radius is nan then
CorrRadii ==
    /\ pc = "radii"
    /\ IF NonZeroSorted(loc.lp_distances) = <<>>
       THEN \/ outcome' = Raised("IndexError") /\ pc' = "done" /\ UNCHANGED loc
            \/ /\ loc' = [loc EXCEPT !.radii = [k \in 1..args.nrSteps |->
                                        [r_min |-> NaN, ratio |-> NaN, i |-> k - 1, den |-> args.nrSteps - 1]]]
               /\ pc' = "sum"
               /\ UNCHANGED outcome
       ELSE /\ loc' = [loc EXCEPT !.radii = LogSpacedRadii(np_percentile_001(NonZeroSorted(loc.lp_distances)),
                                                          np_max(loc.lp_distances), args.nrSteps)]
            /\ pc' = "sum"
            /\ UNCHANGED outcome
    /\ UNCHANGED <<args, mem>>

\* d < r
LessThanRadius(d, r) ==
    IF IsNaN(r.r_min) THEN FALSE
    ELSE IF r.den = 0 THEN RLt(d, r.r_min)
    ELSE RLt(RPow(RDiv(d, r.r_min), r.den), RPow(r.ratio, r.i))

\* np.sum(lp_distances < r)
CountCloser(lp_distances, r) ==
    Cardinality({c \in Cells(lp_distances) : LessThanRadius(lp_distances[c[1]][c[2]], r)})

\* s = 1.0 / (nr_samples * (nr_samples-1)) * np.sum(lp_distances < r)
CorrelationSum(nr_samples, lp_distances, r) ==
    RMul(RDiv(R(1), R(nr_samples * (nr_samples - 1))), R(CountCloser(lp_distances, r)))

\* lines 480-483: one pass of the loop over radii; loc.next counts the radii done
CorrSumIterate ==
    /\ pc = "sum"
    /\ loc.next < Len(loc.radii)
    /\ loc' = [loc EXCEPT
                 !.Cr = Append(@, CorrelationSum(loc.nr_samples, loc.lp_distances, loc.radii[loc.next + 1])),
                 !.next = @ + 1]
    /\ UNCHANGED <<pc, args, mem, outcome>>

\* the positions of np.where(Cr != 0)
NonZeroPositions(Cr) == {k \in 1..Len(Cr) : Cr[k] # R(0)}

\* a[nonzero]
TakePositions(a, keep) ==
    LET F[k \in 0..Len(a)] ==
            IF k = 0 THEN <<>> ELSE IF k \in keep THEN Append(F[k - 1], a[k]) ELSE F[k - 1]
    IN  F[Len(a)]

\* lines 484-489
CorrFilter ==
    /\ pc = "sum"
    /\ ~(loc.next < Len(loc.radii))
    /\ loc' = [loc EXCEPT !.radii = TakePositions(loc.radii, NonZeroPositions(loc.Cr)),
                          !.Cr = TakePositions(loc.Cr, NonZeroPositions(loc.Cr))]
    /\ pc' = "log_units"
    /\ UNCHANGED <<args, mem, outcome>>

NextCorrSum ==
    \/ CorrDistances
    \/ CorrRadii
    \/ CorrSumIterate
    \/ CorrFilter

SpecCorrSum == InitCorrSum /\ [][NextCorrSum]_vars

\* C16: every correlation-sum value lies in [0, 1] and the values are non-decreasing
\* in the radius.
C16_CorrelationSumRange ==
    /\ \A k \in 1..Len(loc.Cr) : RLe(R(0), loc.Cr[k]) /\ RLe(loc.Cr[k], R(1))
    /\ \A k \in 1..(Len(loc.Cr) - 1) : RLe(loc.Cr[k], loc.Cr[k + 1])

-----------------------------------------------------------------------------
(* extract_middle_domain (data_tools_attractor.py)                                     *)
(*                                                                                     *)
(* An array is [shape, data] here, so that shapes with a zero dimension are kept.      *)

EmdMaxDim == 3

EmdOffsets == {0, 10}

\* a field whose pixels are all different: offset + the row-major position of the pixel
EmdField(nr, nc, offset) == [i \in 1..nr |-> [j \in 1..nc |-> R(offset + nc * (i - 1) + j)]]

InitEmd ==
    /\ pc = "borders"
    /\ \E nr \in 1..EmdMaxDim, nc \in 1..EmdMaxDim, offset \in EmdOffsets :
         \E dx \in 0..(nc + 1), dy \in 0..(nr + 1) :
            args = [rainfield |-> EmdField(nr, nc, offset), domainSizeX |-> dx, domainSizeY |-> dy]
    /\ mem = args.rainfield
    /\ loc = [borderSizeX |-> 0, borderSizeY |-> 0, mask |-> <<>>]
    /\ outcome = NoOutcome

\* int(k/2) under true division: truncation towards zero
IntHalfUp(k) == IF k >= 0 THEN (k + 1) \div 2 ELSE -((-k) \div 2)

IntHalf(k) == IF k >= 0 THEN k \div 2 ELSE -((-k) \div 2)

\* lines 60-61
EmdBorders ==
    /\ pc = "borders"
    /\ loc' = [loc EXCEPT !.borderSizeX = IntHalf(NumCols(mem) - args.domainSizeX),
                          !.borderSizeY = IntHalf(NumRows(mem) - args.domainSizeY)]
    /\ pc' = "mask"
    /\ UNCHANGED <<args, mem, outcome>>

\* the 0-based indices selected by the Python slice start: of an axis of length n
PySliceFrom(start, n) == PySlice(start, n, n)

\* mask[rows, cols] = 0, rows and cols being sequences of 0-based indices
ZeroAt(mask, rows, cols) ==
    [i \in 1..NumRows(mask) |-> [j \in 1..NumCols(mask) |->
        IF (i - 1) \in Range(rows) /\ (j - 1) \in Range(cols) THEN R(0) ELSE mask[i][j]]]

\* lines 62-66
EmdMaskOf(nr, nc, borderSizeX, borderSizeY, domainSizeX, domainSizeY) ==
    LET all_rows == PySliceFrom(0, nr)
        all_cols == PySliceFrom(0, nc)
        m0 == [i \in 1..nr |-> [j \in 1..nc |-> R(1)]]
        m1 == ZeroAt(m0, PySlice(0, borderSizeY, nr), all_cols)
        m2 == ZeroAt(m1, PySliceFrom(borderSizeY + domainSizeY, nr), all_cols)
        m3 == ZeroAt(m2, all_rows, PySlice(0, borderSizeX, nc))
    IN  ZeroAt(m3, all_rows, PySliceFrom(borderSizeX + domainSizeX, nc))

EmdMask ==
    /\ pc = "mask"
    /\ loc' = [loc EXCEPT !.mask = EmdMaskOf(NumRows(mem), NumCols(mem), loc.borderSizeX, loc.borderSizeY,
                                             args.domainSizeX, args.domainSizeY)]
    /\ pc' = "select"
    /\ UNCHANGED <<args, mem, outcome>>

\* rainfield[mask==1]: the selected values in row-major order, as a new array
BooleanSelect(a, mask) ==
    LET flat == Flatten(a)
        flags == Flatten(mask)
        F[k \in 0..Len(flat)] ==
            IF k = 0 THEN <<>> ELSE IF flags[k] = R(1) THEN Append(F[k - 1], flat[k]) ELSE F[k - 1]
    IN  F[Len(flat)]

\* flat.reshape(nr, nc)
reshape(flat, nr, nc) ==
    [shape |-> <<nr, nc>>, data |-> [i \in 1..nr |-> [j \in 1..nc |-> flat[nc * (i - 1) + j]]]]

\* lines 68-70
EmdSelect ==
    /\ pc = "select"
    /\ LET flat == BooleanSelect(mem, loc.mask)
       IN  outcome' = IF Len(flat) = args.domainSizeY * args.domainSizeX
                      THEN Returned(reshape(flat, args.domainSizeY, args.domainSizeX))
                      ELSE Raised("ValueError")
    /\ pc' = "done"
    /\ UNCHANGED <<args, mem, loc>>

NextEmd ==
    \/ EmdBorders
    \/ EmdMask
    \/ EmdSelect

SpecEmd == InitEmd /\ [][NextEmd]_vars

\* floor(k/2) for k >= 0
EmdFloorHalf(k) == CHOOSE q \in 0..k : 2 * q <= k /\ k < 2 * q + 2

\* C17: for domainSizeX <= columns and domainSizeY <= rows extract_middle_domain returns
\* the contiguous block of shape (domainSizeY, domainSizeX) whose top-left corner is at
\* row floor((rows-domainSizeY)/2) and column floor((cols-domainSizeX)/2), values in
\* their original order, and rainfield is unchanged.
C17_MiddleDomain ==
    pc = "done" /\ args.domainSizeX <= NumCols(args.rainfield)
                /\ args.domainSizeY <= NumRows(args.rainfield) =>
        LET top == EmdFloorHalf(NumRows(args.rainfield) - args.domainSizeY)
            left == EmdFloorHalf(NumCols(args.rainfield) - args.domainSizeX)
        IN  /\ outcome.kind = "return"
            /\ outcome.value.shape = <<args.domainSizeY, args.domainSizeX>>
            /\ outcome.value.data = [i \in 1..args.domainSizeY |-> [j \in 1..args.domainSizeX |->
                                        args.rainfield[top + i][left + j]]]
            /\ mem = args.rainfield

\* a 1 x 2 block taken from a 3 x 3 field: row 1, columns 0 and 1
C17_Witness ==
    /\ pc = "done"
    /\ args.rainfield = EmdField(3, 3, 0)
    /\ args.domainSizeX = 2
    /\ args.domainSizeY = 1
    /\ outcome = Returned([shape |-> <<1, 2>>, data |-> <<<<R(4), R(5)>>>>])

-----------------------------------------------------------------------------
(* wavelet_decomposition_2d, with the default wavelet 'haar'                            *)

WaveMaxDim == 4
WaveMaxLevels == 2

WaveOffsets == {0, 10}

\* nrLevels: None (the default) or a number of levels
WaveLevelArgs == {<<>>} \cup {<<l>> : l \in 0..WaveMaxLevels}

InitWave ==
    /\ pc = "levels"
    /\ \E nr \in 1..WaveMaxDim, nc \in 1..WaveMaxDim, offset \in WaveOffsets, lv \in WaveLevelArgs :
         args = [rainfield |-> EmdField(nr, nc, offset), nrLevels |-> lv]
    /\ mem = args.rainfield
    /\ loc = [nrRows |-> NumRows(args.rainfield), nrCols |-> NumCols(args.rainfield), nrLevels |-> 0,
              level |-> 0, rainfield |-> args.rainfield, wavelet_coeff |-> <<>>]
    /\ outcome = NoOutcome

\* int(np.log2(n)) for n >= 1
RECURSIVE IntLog2(_)
IntLog2(n) == IF n < 2 THEN 0 ELSE 1 + IntLog2(n \div 2)

\* minDim = np.min([nrRows,nrRows])
minDim(nrRows, nrCols) == Min2(nrRows, nrRows)

\* lines 700-705
WaveLevels ==
    /\ pc = "levels"
    /\ loc' = [loc EXCEPT !.nrLevels = IF args.nrLevels = <<>>
                                       THEN IntLog2(minDim(loc.nrRows, loc.nrCols))
                                       ELSE args.nrLevels[1]]
    /\ pc' = "loop"
    /\ UNCHANGED <<args, mem, outcome>>

\* the approximation cA of pywt.dwt2(a, 'haar'): half the sum of each 2 x 2 block, an odd
\* axis being extended by repeating its last element (mode 'symmetric')
dwt2_cA(a) ==
    LET nr == NumRows(a)
        nc == NumCols(a)
        at(i, j) == a[Min2(i, nr)][Min2(j, nc)]
    IN  [i \in 1..((nr + 1) \div 2) |-> [j \in 1..((nc + 1) \div 2) |->
            RDiv(RAdd(RAdd(at(2*i - 1, 2*j - 1), at(2*i - 1, 2*j)),
                      RAdd(at(2*i, 2*j - 1), at(2*i, 2*j))), R(2))]]

\* rainfield = cA/2.0
NextApproximation(rainfield) ==
    LET cA == dwt2_cA(rainfield)
    IN  [i \in 1..NumRows(cA) |-> [j \in 1..NumCols(cA) |-> RDiv(cA[i][j], R(2))]]

\* lines 710-715: one pass of the loop over the levels
WaveIterate ==
    /\ pc = "loop"
    /\ loc.level < loc.nrLevels
    /\ loc' = [loc EXCEPT !.rainfield = NextApproximation(@),
                          !.wavelet_coeff = Append(@, NextApproximation(loc.rainfield)),
                          !.level = @ + 1]
    /\ UNCHANGED <<pc, args, mem, outcome>>

\* line 717
WaveReturn ==
    /\ pc = "loop"
    /\ ~(loc.level < loc.nrLevels)
    /\ outcome' = Returned(loc.wavelet_coeff)
    /\ pc' = "done"
    /\ UNCHANGED <<args, mem, loc>>

NextWave ==
    \/ WaveLevels
    \/ WaveIterate
    \/ WaveReturn

SpecWave == InitWave /\ [][NextWave]_vars

\* k successive single-level decompositions of a field
RECURSIVE WaveApproximation(_, _)
WaveApproximation(field, k) ==
    IF k = 0 THEN field ELSE NextApproximation(WaveApproximation(field, k - 1))

\* the largest l with 2^l <= n
WaveFloorLog2(n) == CHOOSE l \in 0..n : IntPow(2, l) <= n /\ n < IntPow(2, l + 1)

\* C18: when nrLevels is not given, wavelet_decomposition_2d returns
\* floor(log2(min(nrRows, nrCols))) approximation arrays, the k-th being the result of k
\* successive single-level decompositions of the input.
C18_DefaultLevels ==
    pc = "done" /\ args.nrLevels = <<>> =>
        /\ outcome.kind = "return"
        /\ Len(outcome.value) = WaveFloorLog2(Min2(NumRows(args.rainfield), NumCols(args.rainfield)))
        /\ \A k \in 1..Len(outcome.value) : outcome.value[k] = WaveApproximation(args.rainfield, k)

=============================================================================
